---------------------------- MODULE Spec2Model ----------------------------
(***************************************************************************)
(* A model of the promptspec spec scanner (tui/scanner.py) and of the      *)
(* root-text segmenter and cascade (controller.py).                        *)
(*                                                                         *)
(* A spec text is a sequence of tokens.  A token stands for a run of       *)
(* characters of the Python string: a newline, a space, a tab, a directive *)
(* keyword "@name", a run of word characters (\w+), a placeholder          *)
(* "{{name}}", an unmatched "{{" or "}}", a quoted literal, "==>", "#",    *)
(* ":" or another run of non-word, non-space characters.  The regular      *)
(* expressions of the code become matchers over token positions; "\s"      *)
(* matches the three white-space tokens, so a "\s+" of the code crosses    *)
(* line ends in the model as it does in Python.                            *)
(***************************************************************************)
EXTENDS Integers, Sequences, FiniteSets, TLC

VARIABLES spec_text, pc, meta, root, prompts, prefix, suffix, cascaded

vars == <<spec_text, pc, meta, root, prompts, prefix, suffix, cascaded>>

---------------------------------------------------------------------------
(* Tokens *)

NL == [k |-> "nl", n |-> ""]
SP == [k |-> "sp", n |-> ""]
TAB == [k |-> "tab", n |-> ""]
ARROW == [k |-> "arrow", n |-> ""]
HASH == [k |-> "hash", n |-> ""]
COLON == [k |-> "colon", n |-> ""]
LB == [k |-> "lb", n |-> ""]
RB == [k |-> "rb", n |-> ""]
At(name) == [k |-> "at", n |-> name]
W(name) == [k |-> "word", n |-> name]
V(name) == [k |-> "var", n |-> name]
Q(name) == [k |-> "q", n |-> name]
Sym(name) == [k |-> "sym", n |-> name]

\* [ \t] of the patterns; the first character test of _extract_root_text
IsHWS(t) == t.k \in {"sp", "tab"}

\* \s of the patterns; str.isspace and str.strip
IsWS(t) == t.k \in {"sp", "tab", "nl"}

\* an optional value: <<>> is None, <<x>> is x
None == <<>>
Some(x) == <<x>>

---------------------------------------------------------------------------
(* Strings *)

RECURSIVE SkipHWS(_, _)
\* the position after a maximal run [ \t]* starting at p
SkipHWS(T, p) ==
    IF p <= Len(T) /\ IsHWS(T[p]) THEN SkipHWS(T, p + 1) ELSE p

RECURSIVE SkipWS(_, _)
\* the position after a maximal run \s* starting at p
SkipWS(T, p) ==
    IF p <= Len(T) /\ IsWS(T[p]) THEN SkipWS(T, p + 1) ELSE p

RECURSIVE RunEnd(_, _)
\* the position after a maximal run \S* starting at p
RunEnd(T, p) ==
    IF p <= Len(T) /\ ~IsWS(T[p]) THEN RunEnd(T, p + 1) ELSE p

RECURSIVE LineEnd(_, _)
\* the position of the first newline at or after p (Len(T)+1 if none): where .* stops
LineEnd(T, p) ==
    IF p <= Len(T) /\ T[p].k # "nl" THEN LineEnd(T, p + 1) ELSE p

\* ^ under re.MULTILINE: the start of the string and after every newline
IsLineStart(T, p) == p = 1 \/ (p - 1 <= Len(T) /\ T[p - 1].k = "nl")

\* the positions where ^ matches, ascending
LineStarts(T) == SelectSeq([i \in 1..(Len(T) + 1) |-> i], LAMBDA p : IsLineStart(T, p))

RECURSIVE LStrip(_)
LStrip(S) == IF S # <<>> /\ IsWS(Head(S)) THEN LStrip(Tail(S)) ELSE S

RECURSIVE RStrip(_)
RStrip(S) ==
    IF S # <<>> /\ IsWS(S[Len(S)]) THEN RStrip(SubSeq(S, 1, Len(S) - 1)) ELSE S

\* str.strip()
Strip(S) == RStrip(LStrip(S))

RECURSIVE SplitNL(_)
\* str.split("\n")
SplitNL(T) ==
    LET e == LineEnd(T, 1)
    IN  IF e > Len(T) THEN <<T>>
        ELSE <<SubSeq(T, 1, e - 1)>> \o SplitNL(SubSeq(T, e + 1, Len(T)))

\* str.splitlines(): no line for the empty string, none after a final newline
SplitLines(T) ==
    IF T = <<>> THEN <<>>
    ELSE IF T[Len(T)].k = "nl" THEN SplitNL(SubSeq(T, 1, Len(T) - 1))
    ELSE SplitNL(T)

RECURSIVE JoinWith(_, _)
\* sep.join(parts)
JoinWith(sep, parts) ==
    IF parts = <<>> THEN <<>>
    ELSE IF Len(parts) = 1 THEN parts[1]
    ELSE parts[1] \o sep \o JoinWith(sep, Tail(parts))

\* "\n".join(lines)
JoinNL(lines) == JoinWith(<<NL>>, lines)

\* s.startswith of a one-token prefix
StartsWith(S, t) == S # <<>> /\ S[1] = t


RECURSIVE Dedupe_KeepLast(_)
\* a variant that keeps the last occurrence of each element
Dedupe_KeepLast(xs) ==
    IF xs = <<>> THEN <<>>
    ELSE LET rest == Dedupe_KeepLast(Tail(xs))
         IN  IF \E i \in 1..Len(rest) : rest[i] = Head(xs) THEN rest
             ELSE <<Head(xs)>> \o rest

RECURSIVE Dedupe(_)
\* list(dict.fromkeys(xs)): first occurrences, in order
Dedupe(xs) ==
    IF xs = <<>> THEN <<>>
    ELSE LET init == Dedupe(SubSeq(xs, 1, Len(xs) - 1))
             x == xs[Len(xs)]
         IN  IF \E i \in 1..Len(init) : init[i] = x THEN init ELSE Append(init, x)

Range(s) == {s[i] : i \in 1..Len(s)}

\* the least and the greatest of a non-empty set of numbers
Min(S) == CHOOSE x \in S : \A y \in S : x <= y
Max(S) == CHOOSE x \in S : \A y \in S : x >= y

---------------------------------------------------------------------------
(* The patterns of the scanner.  A matcher XAt(T, p) tries the pattern at  *)
(* the line start p and gives <<>> or <<[start, cap, end]>>: cap is the    *)
(* capture group 1 and end the position after the match.                   *)

NoMatch == <<>>
Match(p, c, e) == <<[start |-> p, cap |-> c, end |-> e]>>

\* ^[ \t]*@kw\s+ : the position after it, 0 when it does not match at p
DirectiveArg(T, p, kw) ==
    LET q == SkipHWS(T, p)
    IN  IF q + 1 <= Len(T) /\ T[q] = At(kw) /\ IsWS(T[q + 1])
        THEN SkipWS(T, q + 1) ELSE 0

\* ^[ \t]*@kw\s+(\w+) : _MATCH_DIRECTIVE, _IF_DIRECTIVE, _PROMPT_DIRECTIVE
WordDirectiveAt(T, p, kw) ==
    LET a == DirectiveArg(T, p, kw)
    IN  IF a > 0 /\ a <= Len(T) /\ T[a].k = "word"
        THEN Match(p, <<T[a]>>, a + 1) ELSE NoMatch

\* ^[ \t]*@kw\s+(\S+) : _TOOL_DIRECTIVE, _REFINE_DIRECTIVE
RunDirectiveAt(T, p, kw) ==
    LET a == DirectiveArg(T, p, kw)
    IN  IF a > 0 /\ a <= Len(T)
        THEN Match(p, SubSeq(T, a, RunEnd(T, a) - 1), RunEnd(T, a)) ELSE NoMatch

\* ^[ \t]*@kw\s+file:\s*(\S+) : _EMBED_FILE, _SUMMARIZE_FILE, _COMPRESS_FILE, _EXTRACT_FILE
FileDirectiveAt(T, p, kw) ==
    LET a == DirectiveArg(T, p, kw)
        b == SkipWS(T, a + 2)
    IN  IF a > 0 /\ a + 1 <= Len(T) /\ T[a] = W("file") /\ T[a + 1] = COLON
           /\ b <= Len(T)
        THEN Match(p, SubSeq(T, b, RunEnd(T, b) - 1), RunEnd(T, b)) ELSE NoMatch

\* ^[ \t]*@assert\s+(.*) : _ASSERT_DIRECTIVE
AssertAt(T, p) ==
    LET a == DirectiveArg(T, p, "assert")
    IN  IF a > 0 THEN Match(p, SubSeq(T, a, LineEnd(T, a) - 1), LineEnd(T, a))
        ELSE NoMatch

RECURSIVE ConfigEnd(_, _)
\* (?:\n(?:[ \t]+\S.*))* from position e: the position after the last
\* directly following line that is indented and not blank
ConfigEnd(T, e) ==
    LET h == SkipHWS(T, e + 1)
    IN  IF e <= Len(T) /\ T[e].k = "nl" /\ h > e + 1 /\ h <= Len(T) /\ ~IsWS(T[h])
        THEN ConfigEnd(T, LineEnd(T, h)) ELSE e

\* ^[ \t]*@execute\s+(\S+)((?:\n(?:[ \t]+\S.*))*) : _EXECUTE_DIRECTIVE;
\* cap is group 1 and block is group 2
ExecuteAt(T, p) ==
    LET a == DirectiveArg(T, p, "execute")
        e == RunEnd(T, a)
        f == ConfigEnd(T, e)
    IN  IF a > 0 /\ a <= Len(T)
        THEN <<[start |-> p, cap |-> SubSeq(T, a, e - 1),
                block |-> SubSeq(T, e, f - 1), end |-> f]>>
        ELSE NoMatch

\* ^[ \t]*@note\s*\n((?:[ \t]+.*\n?)*) : _NOTE_BLOCK; the white space after
\* "@note" must hold a newline
NoteBlockAt(T, p) ==
    LET q == SkipHWS(T, p)
        r == SkipWS(T, q + 1)
    IN  /\ q <= Len(T)
        /\ T[q] = At("note")
        /\ \E i \in (q + 1)..(r - 1) : T[i].k = "nl"

\* ^#\s+(.+) : _HEADING.  When only white space follows the "#" to the end
\* of the text the capture is blank or the match fails, and the title is
\* empty either way: that case is given as no match.
HeadingAt(T, p) ==
    LET q == SkipWS(T, p + 1)
    IN  IF p + 1 <= Len(T) /\ T[p] = HASH /\ IsWS(T[p + 1]) /\ q <= Len(T)
        THEN Match(p, SubSeq(T, q, LineEnd(T, q) - 1), LineEnd(T, q)) ELSE NoMatch

\* ^[ \t]*"([^"]+)"\s*==> : _MATCH_CASE
MatchCaseAt(T, p) ==
    LET q == SkipHWS(T, p)
        r == SkipWS(T, q + 1)
    IN  IF q <= Len(T) /\ T[q].k = "q" /\ r <= Len(T) /\ T[r] = ARROW
        THEN Match(p, <<T[q]>>, r + 1) ELSE NoMatch

\* ^[ \t]*_\s*==> : the wildcard case searched by _extract_match_cases
WildcardAt(T, p) ==
    LET q == SkipHWS(T, p)
        r == SkipWS(T, q + 1)
    IN  q <= Len(T) /\ T[q] = W("_") /\ r <= Len(T) /\ T[r] = ARROW

\* the pattern named pat tried at line start p
PatternAt(pat, T, p) ==
    CASE pat \in {"match", "if", "prompt"} -> WordDirectiveAt(T, p, pat)
      [] pat \in {"tool", "refine"} -> RunDirectiveAt(T, p, pat)
      [] pat \in {"embed", "summarize", "compress", "extract"} -> FileDirectiveAt(T, p, pat)
      [] pat = "assert" -> AssertAt(T, p)
      [] pat = "execute" -> ExecuteAt(T, p)
      [] pat = "heading" -> HeadingAt(T, p)
      [] pat = "case" -> MatchCaseAt(T, p)

RECURSIVE NonOverlapping(_, _, _, _)
\* the scan of finditer: the line starts ls[i..] in turn, each tried only
\* from where the previous match ended
NonOverlapping(pat, T, ls, i) ==
    IF i > Len(ls) THEN <<>>
    ELSE LET m == PatternAt(pat, T, ls[i])
         IN  IF m = NoMatch THEN NonOverlapping(pat, T, ls, i + 1)
             ELSE m \o NonOverlapping(pat, T,
                        SelectSeq(ls, LAMBDA s : s >= m[1].end), 1)

\* pattern.finditer(T): the matches in text order
FindIter(pat, T) == NonOverlapping(pat, T, LineStarts(T), 1)

\* pattern.findall(T): the captures in text order
FindAll(pat, T) == LET ms == FindIter(pat, T) IN [i \in 1..Len(ms) |-> ms[i].cap]

\* _MUSTACHE_VAR.finditer(T): the placeholders {{name}} in text order
MustacheVars(T) ==
    LET vs == SelectSeq(T, LAMBDA t : t.k = "var") IN [i \in 1..Len(vs) |-> vs[i].n]

---------------------------------------------------------------------------
(* The scanner's helpers *)

_RICH_FORMAT_HINT == "Supports: .txt, .md, .pdf, .docx, .pptx, .xlsx, .html"

_MULTILINE_HINTS ==
    {"description", "text", "content", "body", "prompt", "instructions",
     "message", "context", "details", "summary", "draft", "template",
     "text_a", "text_b", "input_text", "output_text"}

_INTERNAL_VARS == {"edited_content", "original_content", "best_path", "state"}

\* the names used in the model that hold a hint word without being one
NamesHoldingHint == {"edited_content", "original_content", "my_body", "Body"}

\* any(hint in var_name.lower() for hint in _MULTILINE_HINTS), over the
\* names of the model
_is_multiline_hint(var_name) == var_name \in _MULTILINE_HINTS \cup NamesHoldingHint

\* "{{" in path and "}}" in path
_is_variable(path) ==
    /\ \E i \in 1..Len(path) : path[i].k \in {"var", "lb"}
    /\ \E i \in 1..Len(path) : path[i].k \in {"var", "rb"}

\* _MUSTACHE_VAR.search(path): the first placeholder's name, or None
_extract_var_name(path) ==
    LET vs == MustacheVars(path) IN IF vs = <<>> THEN None ELSE Some(vs[1])

RECURSIVE DescLines(_, _, _)
\* the loop of _extract_description from line i on
DescLines(lines, i, past_title) ==
    IF i > Len(lines) THEN <<>>
    ELSE LET stripped == Strip(lines[i])
         IN  IF ~past_title /\ Len(stripped) >= 2 /\ stripped[1] = HASH /\ stripped[2] = SP
             THEN DescLines(lines, i + 1, TRUE)
             ELSE IF \/ (stripped # <<>> /\ stripped[1].k = "at")
                     \/ (past_title /\ StartsWith(stripped, HASH))
             THEN <<>>
             ELSE IF past_title THEN <<lines[i]>> \o DescLines(lines, i + 1, past_title)
             ELSE DescLines(lines, i + 1, past_title)

\* a variant that takes the lines before the title line too
_extract_description_NoTitleGate(T) ==
    Strip(JoinNL(DescLines(SplitLines(T), 1, TRUE)))

_extract_description(T) == Strip(JoinNL(DescLines(SplitLines(T), 1, FALSE)))

\* a variant that scans the whole text, not the text after the directive
_extract_match_cases_WholeText(T, start_pos) ==
    LET cs == FindAll("case", T)
        ls == LineStarts(T)
        cases == [i \in 1..Len(cs) |-> cs[i][1].n]
    IN  IF \E i \in 1..Len(ls) : WildcardAt(T, ls[i])
        THEN Append(cases, "_") ELSE cases

\* a variant that puts the wildcard before the quoted cases
_extract_match_cases_WildcardFirst(T, start_pos) ==
    LET remaining == SubSeq(T, start_pos, Len(T))
        cs == FindAll("case", remaining)
        ls == LineStarts(remaining)
        cases == [i \in 1..Len(cs) |-> cs[i][1].n]
    IN  IF \E i \in 1..Len(ls) : WildcardAt(remaining, ls[i])
        THEN <<"_">> \o cases ELSE cases

\* _extract_match_cases(spec_text, start_pos): the quoted cases of the rest
\* of the text, then "_" if a wildcard case stands anywhere in it
_extract_match_cases(T, start_pos) ==
    LET remaining == SubSeq(T, start_pos, Len(T))
        cs == FindAll("case", remaining)
        ls == LineStarts(remaining)
        cases == [i \in 1..Len(cs) |-> cs[i][1].n]
    IN  IF \E i \in 1..Len(ls) : WildcardAt(remaining, ls[i])
        THEN Append(cases, "_") ELSE cases

\* the number of characters a token stands for
CharLen(t) ==
    CASE t.k \in {"nl", "sp", "tab", "hash", "colon"} -> 1
      [] t.k \in {"lb", "rb"} -> 2
      [] t.k = "arrow" -> 3
      [] t.k = "at" -> 1 + Len(t.n)
      [] t.k = "var" -> 4 + Len(t.n)
      [] t.k = "q" -> 2 + Len(t.n)
      [] t.k = "cut" -> t.len
      [] OTHER -> Len(t.n)

RECURSIVE StrLen(_)
\* len(s)
StrLen(S) == IF S = <<>> THEN 0 ELSE CharLen(Head(S)) + StrLen(Tail(S))

\* a variant that never cuts
Truncate_Whole(S, cap) == S

RECURSIVE Truncate(_, _)
\* s[:cap]; a token cut by the slice stays as a "cut" token of the kept length
Truncate(S, cap) ==
    IF S = <<>> \/ cap <= 0 THEN <<>>
    ELSE IF CharLen(Head(S)) <= cap
         THEN <<Head(S)>> \o Truncate(Tail(S), cap - CharLen(Head(S)))
         ELSE <<[k |-> "cut", n |-> Head(S).n, len |-> cap]>>

NoteCap == 200
NoteWindow == 5

RECURSIVE NoteBodyEnd(_, _)
\* the inner loop of _extract_note_hints: the first line at or after i that
\* neither starts with two spaces nor is blank
NoteBodyEnd(lines, i) ==
    IF i <= Len(lines)
       /\ \/ (Len(lines[i]) >= 2 /\ lines[i][1] = SP /\ lines[i][2] = SP)
          \/ Strip(lines[i]) = <<>>
    THEN NoteBodyEnd(lines, i + 1) ELSE i

RECURSIVE NoteRanges(_, _)
\* note_ranges: for each "@note" line, [start, end, text]
NoteRanges(lines, i) ==
    IF i > Len(lines) THEN <<>>
    ELSE IF StartsWith(Strip(lines[i]), At("note"))
    THEN LET e == NoteBodyEnd(lines, i + 1)
             body == SelectSeq(SubSeq(lines, i + 1, e - 1), LAMBDA l : Strip(l) # <<>>)
             content == [j \in 1..Len(body) |-> Strip(body[j])]
         IN  <<[start |-> i, end |-> e, text |-> JoinWith(<<SP>>, content)]>>
             \o NoteRanges(lines, e)
    ELSE NoteRanges(lines, i + 1)

RECURSIVE OccurrencesFrom(_, _)
\* the placeholder occurrences of the lines from i on, each with its line index
OccurrencesFrom(lines, i) ==
    IF i > Len(lines) THEN <<>>
    ELSE LET vs == MustacheVars(lines[i])
         IN  [j \in 1..Len(vs) |-> [name |-> vs[j], line |-> i]]
             \o OccurrencesFrom(lines, i + 1)

VarOccurrences(lines) == OccurrencesFrom(lines, 1)

\* the first range, in text order, that ends at most NoteWindow lines before line
FirstNoteNear(ranges, line) ==
    LET near == SelectSeq(ranges,
                    LAMBDA r : 0 <= line - r.end /\ line - r.end <= NoteWindow)
    IN  IF near = <<>> THEN None ELSE Some(Truncate(near[1].text, NoteCap))

RECURSIVE HintsFrom(_, _, _, _)
\* the second loop of _extract_note_hints over the occurrences occ[i..]
HintsFrom(ranges, occ, i, hints) ==
    IF i > Len(occ) THEN hints
    ELSE LET o == occ[i]
             h == FirstNoteNear(ranges, o.line)
         IN  IF o.name \in DOMAIN hints \/ h = None
             THEN HintsFrom(ranges, occ, i + 1, hints)
             ELSE HintsFrom(ranges, occ, i + 1, (o.name :> h[1]) @@ hints)

\* _extract_note_hints(spec_text): a map from variable name to note text
_extract_note_hints(T) ==
    LET lines == SplitLines(T)
    IN  HintsFrom(NoteRanges(lines, 1), VarOccurrences(lines), 1, <<>>)

\* note_hints.get(var_name)
HintGet(hints, name) == IF name \in DOMAIN hints THEN Some(hints[name]) ELSE None

---------------------------------------------------------------------------
(* Execution parameters *)

\* the digit words of the model and the integer each is read as by int()
IntWords == {"0", "1", "2", "3", "5", "07", "1_0"}
IntOf(d) ==
    CASE d = "0" -> 0 [] d = "1" -> 1 [] d = "2" -> 2 [] d = "3" -> 3
      [] d = "5" -> 5 [] d = "07" -> 7 [] d = "1_0" -> 10

\* the words of the model, other than digit words, that float() accepts
FloatWords == {"inf", "nan", "1e5"}

IsSign(t) == t = Sym("-") \/ t = Sym("+")

\* int(v) succeeds: an optional sign and digits
IsInt(v) ==
    \/ (Len(v) = 1 /\ v[1].k = "word" /\ v[1].n \in IntWords)
    \/ (Len(v) = 2 /\ IsSign(v[1]) /\ v[2].k = "word" /\ v[2].n \in IntWords)

IntValue(v) ==
    IF Len(v) = 1 THEN IntOf(v[1].n)
    ELSE IF v[1] = Sym("-") THEN 0 - IntOf(v[2].n) ELSE IntOf(v[2].n)

\* the unsigned forms float() accepts: digits, digits with a point, and
\* the special words
IsUnsignedFloat(u) ==
    LET digits(t) == t.k = "word" /\ t.n \in IntWords
    IN  \/ (Len(u) = 1 /\ u[1].k = "word" /\ u[1].n \in IntWords \cup FloatWords)
        \/ (Len(u) = 2 /\ digits(u[1]) /\ u[2] = Sym("."))
        \/ (Len(u) = 2 /\ u[1] = Sym(".") /\ digits(u[2]))
        \/ (Len(u) = 3 /\ digits(u[1]) /\ u[2] = Sym(".") /\ digits(u[3]))

\* float(v) succeeds
IsFloat(v) ==
    \/ IsUnsignedFloat(v)
    \/ (Len(v) >= 2 /\ IsSign(v[1]) /\ IsUnsignedFloat(Tail(v)))


\* a variant that tries float(v) before int(v)
Coerce_FloatFirst(v) ==
    IF IsFloat(v) THEN [ty |-> "float", num |-> 0, raw |-> v]
    ELSE IF IsInt(v) THEN [ty |-> "int", num |-> IntValue(v), raw |-> <<>>]
    ELSE [ty |-> "str", num |-> 0, raw |-> v]

\* the try/except chain: int(v), else float(v), else the string itself
Coerce(v) ==
    IF IsInt(v) THEN [ty |-> "int", num |-> IntValue(v), raw |-> <<>>]
    ELSE IF IsFloat(v) THEN [ty |-> "float", num |-> 0, raw |-> v]
    ELSE [ty |-> "str", num |-> 0, raw |-> v]

StrValue(v) == [ty |-> "str", num |-> 0, raw |-> v]

\* the position of the first ":" of a line, 0 if none
RECURSIVE ColonPos(_, _)
ColonPos(line, i) ==
    IF i > Len(line) THEN 0
    ELSE IF line[i] = COLON THEN i ELSE ColonPos(line, i + 1)

RECURSIVE ConfigFrom(_, _, _)
\* the loop over config_block.splitlines() from line i on
ConfigFrom(lines, i, config) ==
    IF i > Len(lines) THEN config
    ELSE LET line == Strip(lines[i])
             c == ColonPos(line, 1)
             key == Strip(SubSeq(line, 1, c - 1))
             v == Strip(SubSeq(line, c + 1, Len(line)))
         IN  IF c = 0 THEN ConfigFrom(lines, i + 1, config)
             ELSE ConfigFrom(lines, i + 1, (key :> Coerce(v)) @@ config)

\* the @execute part of scan_spec: None, or the config of the first match
Execution(T) ==
    LET ms == FindIter("execute", T)
    IN  IF ms = <<>> THEN None
        ELSE Some(ConfigFrom(SplitLines(Strip(ms[1].block)), 1,
                             (<<W("type")>> :> StrValue(ms[1].cap))))

---------------------------------------------------------------------------
(* scan_spec *)

\* a variant whose options default to an empty list instead of None
SpecInput_OptionsListDefault(name, input_type, options, default, description, file_hint, source) ==
    [name |-> name, input_type |-> input_type,
     options |-> IF options = None THEN Some(<<>>) ELSE options,
     default |-> default, description |-> description,
     file_hint |-> file_hint, source_directive |-> source]

SpecInput(name, input_type, options, default, description, file_hint, source) ==
    [name |-> name, input_type |-> input_type, options |-> options,
     default |-> default, description |-> description,
     file_hint |-> file_hint, source_directive |-> source]

\* a variant without the seen_names test
AddInput_NoSeenCheck(st, inp) ==
    [st EXCEPT !.seen = @ \cup {inp.name}, !.inputs = Append(@, inp)]

\* seen_names.add(var_name); inputs.append(inp) unless the name was seen
AddInput(st, inp) ==
    IF inp.name \in st.seen THEN st
    ELSE [st EXCEPT !.seen = @ \cup {inp.name}, !.inputs = Append(@, inp)]

RECURSIVE MatchInputs(_, _, _, _, _)
\* step 1: @match variables become select inputs
MatchInputs(T, hints, ms, i, st) ==
    IF i > Len(ms) THEN st
    ELSE LET var_name == ms[i].cap[1].n
         IN  MatchInputs(T, hints, ms, i + 1,
                 AddInput(st, SpecInput(var_name, "select",
                     Some(_extract_match_cases(T, ms[i].end)), None,
                     HintGet(hints, var_name), None, "@match")))

RECURSIVE IfInputs(_, _, _, _)
\* step 2: @if variables become boolean inputs
IfInputs(hints, ms, i, st) ==
    IF i > Len(ms) THEN st
    ELSE LET var_name == ms[i].cap[1].n
         IN  IfInputs(hints, ms, i + 1,
                 AddInput(st, SpecInput(var_name, "boolean", None, Some("false"),
                     HintGet(hints, var_name), None, "@if")))

\* a file input for the placeholder of path, if it has one
FileInput(hints, path, st, hint, directive_name) ==
    LET var_name == _extract_var_name(path)
    IN  IF var_name = None THEN st
        ELSE AddInput(st, SpecInput(var_name[1], "file", None, None,
                          HintGet(hints, var_name[1]), Some(hint), directive_name))


RECURSIVE FileInputs_AppendAlways(_, _, _, _, _)
\* a variant that records the {{var}} arguments in embed_files too
FileInputs_AppendAlways(hints, directive_name, ms, i, st) ==
    IF i > Len(ms) THEN st
    ELSE LET path == ms[i].cap
             st2 == [st EXCEPT !.embed_files = Append(@, path)]
         IN  FileInputs_AppendAlways(hints, directive_name, ms, i + 1,
                 IF _is_variable(path)
                 THEN FileInput(hints, path, st2, _RICH_FORMAT_HINT, directive_name)
                 ELSE st2)

RECURSIVE FileInputs(_, _, _, _, _)
\* step 3, one directive: {{var}} arguments become file inputs, static
\* arguments go to embed_files
FileInputs(hints, directive_name, ms, i, st) ==
    IF i > Len(ms) THEN st
    ELSE LET path == ms[i].cap
         IN  FileInputs(hints, directive_name, ms, i + 1,
                 IF _is_variable(path)
                 THEN FileInput(hints, path, st, _RICH_FORMAT_HINT, directive_name)
                 ELSE [st EXCEPT !.embed_files = Append(@, path)])

_FILE_DIRECTIVES == <<"embed", "summarize", "compress", "extract">>

RECURSIVE AllFileInputs(_, _, _, _)
\* step 3: the file directives in the order of _FILE_DIRECTIVES
AllFileInputs(T, hints, d, st) ==
    IF d > Len(_FILE_DIRECTIVES) THEN st
    ELSE AllFileInputs(T, hints, d + 1,
             FileInputs(hints, "@" \o _FILE_DIRECTIVES[d],
                        FindIter(_FILE_DIRECTIVES[d], T), 1, st))

RECURSIVE RefineInputs(_, _, _, _)
\* step 4: @refine {{var}} becomes a file input
RefineInputs(hints, ms, i, st) ==
    IF i > Len(ms) THEN st
    ELSE RefineInputs(hints, ms, i + 1,
             IF _is_variable(ms[i].cap)
             THEN FileInput(hints, ms[i].cap, st,
                            "PromptSpec file (.promptspec.md)", "@refine")
             ELSE st)


RECURSIVE PlainInputs_KeepReserved(_, _, _, _)
\* a variant without the _INTERNAL_VARS test
PlainInputs_KeepReserved(hints, vs, i, st) ==
    IF i > Len(vs) THEN st
    ELSE PlainInputs_KeepReserved(hints, vs, i + 1,
             AddInput(st, SpecInput(vs[i],
                 IF _is_multiline_hint(vs[i]) THEN "multiline" ELSE "text",
                 None, None, HintGet(hints, vs[i]), None, "{{variable}}")))

RECURSIVE PlainInputs(_, _, _, _)
\* step 5: the remaining placeholders become text or multiline inputs
PlainInputs(hints, vs, i, st) ==
    IF i > Len(vs) THEN st
    ELSE PlainInputs(hints, vs, i + 1,
             IF vs[i] \in _INTERNAL_VARS THEN st
             ELSE AddInput(st, SpecInput(vs[i],
                      IF _is_multiline_hint(vs[i]) THEN "multiline" ELSE "text",
                      None, None, HintGet(hints, vs[i]), None, "{{variable}}")))

\* a variant that takes the bare placeholders first
CollectInputs_PlainFirst(T, hints) ==
    LET s0 == [seen |-> {}, inputs |-> <<>>, embed_files |-> <<>>]
        s1 == PlainInputs(hints, MustacheVars(T), 1, s0)
        s2 == MatchInputs(T, hints, FindIter("match", T), 1, s1)
        s3 == IfInputs(hints, FindIter("if", T), 1, s2)
        s4 == AllFileInputs(T, hints, 1, s3)
    IN  RefineInputs(hints, FindIter("refine", T), 1, s4)

\* a variant in which seen_names outlives the call: the names of the records
\* returned so far are already seen when the call starts
CollectInputs_SeenKept(T, hints) ==
    LET s0 == [seen |-> UNION {{meta[c].inputs[j].name : j \in 1..Len(meta[c].inputs)} :
                                  c \in 1..Len(meta)},
               inputs |-> <<>>, embed_files |-> <<>>]
        s1 == MatchInputs(T, hints, FindIter("match", T), 1, s0)
        s2 == IfInputs(hints, FindIter("if", T), 1, s1)
        s3 == AllFileInputs(T, hints, 1, s2)
        s4 == RefineInputs(hints, FindIter("refine", T), 1, s3)
    IN  PlainInputs(hints, MustacheVars(T), 1, s4)

\* steps 1 to 5 of scan_spec: [seen, inputs, embed_files]
CollectInputs(T, hints) ==
    LET s0 == [seen |-> {}, inputs |-> <<>>, embed_files |-> <<>>]
        s1 == MatchInputs(T, hints, FindIter("match", T), 1, s0)
        s2 == IfInputs(hints, FindIter("if", T), 1, s1)
        s3 == AllFileInputs(T, hints, 1, s2)
        s4 == RefineInputs(hints, FindIter("refine", T), 1, s3)
    IN  PlainInputs(hints, MustacheVars(T), 1, s4)

\* meta.title
Title(T) ==
    LET ms == FindIter("heading", T)
    IN  IF ms = <<>> THEN <<>> ELSE Strip(ms[1].cap)

\* meta.has_notes
HasNotes(T) ==
    LET ls == LineStarts(T) IN \E i \in 1..Len(ls) : NoteBlockAt(T, ls[i])

\* meta.prompt_names
PromptNames(T) ==
    LET cs == FindAll("prompt", T) IN Dedupe([i \in 1..Len(cs) |-> cs[i][1].n])

\* The SpecMetadata record that scan_spec returns; st is the state of steps 1-5.
SpecMetadata(T, st) ==
    [title |-> Title(T),
     description |-> _extract_description(T),
     inputs |-> st.inputs,
     execution |-> Execution(T),
     prompt_names |-> PromptNames(T),
     tool_names |-> Dedupe(FindAll("tool", T)),
     refine_files |-> SelectSeq(FindAll("refine", T), LAMBDA path : ~_is_variable(path)),
     embed_files |-> st.embed_files,
     assertions |-> FindAll("assert", T),
     has_notes |-> HasNotes(T)]

\* scan_spec(spec_text)
scan_spec(T) == SpecMetadata(T, CollectInputs(T, _extract_note_hints(T)))

---------------------------------------------------------------------------
(* The root-text segmenter and the cascade (controller.py) *)

\* re.match(r"^@prompt\b", line.strip())
IsPromptLine(line) ==
    LET s == Strip(line)
    IN  StartsWith(s, At("prompt")) /\ (Len(s) = 1 \/ s[2].k # "word")

\* prompt_indices
PromptIndices(lines) ==
    SelectSeq([i \in 1..Len(lines) |-> i], LAMBDA i : IsPromptLine(lines[i]))

\* lines[i] and lines[i][0] in (" ", "\t")
IsIndented(line) == line # <<>> /\ IsHWS(line[1])

\* a variant that drops the @execute line alone
SkipIndented_None(lines, i, first_prompt) == i

RECURSIVE SkipIndented(_, _, _)
\* the inner loop of the prefix: past the indented lines before first_prompt
SkipIndented(lines, i, first_prompt) ==
    IF i < first_prompt /\ IsIndented(lines[i])
    THEN SkipIndented(lines, i + 1, first_prompt) ELSE i

RECURSIVE PrefixLines(_, _, _)
\* prefix_lines: the lines before first_prompt without the @execute blocks
PrefixLines(lines, i, first_prompt) ==
    IF i >= first_prompt THEN <<>>
    ELSE IF StartsWith(Strip(lines[i]), At("execute"))
    THEN PrefixLines(lines, SkipIndented(lines, i + 1, first_prompt), first_prompt)
    ELSE <<lines[i]>> \o PrefixLines(lines, i + 1, first_prompt)

RECURSIVE BlockEnd_StopAtEmpty(_, _)
\* a variant in which an empty line ends the block too
BlockEnd_StopAtEmpty(lines, j) ==
    IF j <= Len(lines) /\ lines[j] # <<>> /\ IsWS(lines[j][1])
    THEN BlockEnd_StopAtEmpty(lines, j + 1) ELSE j

RECURSIVE BlockEnd(_, _)
\* the loop over j: the first line at or after j that is not empty and does
\* not start with white space (Len(lines)+1 if none)
BlockEnd(lines, j) ==
    IF j <= Len(lines) /\ ~(lines[j] # <<>> /\ ~IsWS(lines[j][1]))
    THEN BlockEnd(lines, j + 1) ELSE j

\* a variant that takes the whole text as prefix when no @prompt is found
_extract_root_text_AllPrefix(T) ==
    LET lines == SplitNL(T)
        prompt_indices == PromptIndices(lines)
        first_prompt == prompt_indices[1]
        last_prompt == prompt_indices[Len(prompt_indices)]
        j == BlockEnd(lines, last_prompt + 1)
    IN  IF prompt_indices = <<>>
        THEN [prefix |-> Strip(JoinNL(PrefixLines(lines, 1, Len(lines) + 1))),
              suffix |-> <<>>]
        ELSE [prefix |-> Strip(JoinNL(PrefixLines(lines, 1, first_prompt))),
              suffix |-> Strip(JoinNL(SubSeq(lines, j, Len(lines))))]

\* a variant whose suffix starts after the block of the first @prompt line
_extract_root_text_SuffixAfterFirst(T) ==
    LET lines == SplitNL(T)
        prompt_indices == PromptIndices(lines)
        first_prompt == prompt_indices[1]
        j == BlockEnd(lines, first_prompt + 1)
    IN  IF prompt_indices = <<>> THEN [prefix |-> <<>>, suffix |-> <<>>]
        ELSE [prefix |-> Strip(JoinNL(PrefixLines(lines, 1, first_prompt))),
              suffix |-> Strip(JoinNL(SubSeq(lines, j, Len(lines))))]

_extract_root_text(T) ==
    LET lines == SplitNL(T)
        prompt_indices == PromptIndices(lines)
        first_prompt == prompt_indices[1]
        last_prompt == prompt_indices[Len(prompt_indices)]
        j == BlockEnd(lines, last_prompt + 1)
    IN  IF prompt_indices = <<>> THEN [prefix |-> <<>>, suffix |-> <<>>]
        ELSE [prefix |-> Strip(JoinNL(PrefixLines(lines, 1, first_prompt))),
              suffix |-> Strip(JoinNL(SubSeq(lines, j, Len(lines))))]

\* a variant that leaves an empty text out of the join
CascadeOne_SkipEmptyText(text, pre, suf) ==
    JoinWith(<<NL, NL>>,
             (IF pre # <<>> THEN <<pre>> ELSE <<>>)
             \o (IF text # <<>> THEN <<text>> ELSE <<>>)
             \o (IF suf # <<>> THEN <<suf>> ELSE <<>>))

\* the value built for one entry: "\n\n".join(parts)
CascadeOne(text, pre, suf) ==
    JoinWith(<<NL, NL>>,
             (IF pre # <<>> THEN <<pre>> ELSE <<>>) \o <<text>>
             \o (IF suf # <<>> THEN <<suf>> ELSE <<>>))

\* a variant that returns the map whenever it has a "default" key
_cascade_root_context_AnyDefault(ps, pre, suf) ==
    IF pre = <<>> /\ suf = <<>> THEN ps
    ELSE IF \E i \in 1..Len(ps) : ps[i].name = "default" THEN ps
    ELSE [i \in 1..Len(ps) |->
             [name |-> ps[i].name, text |-> CascadeOne(ps[i].text, pre, suf)]]

\* a dict is a sequence of [name, text] entries with distinct names, in
\* insertion order
_cascade_root_context(ps, pre, suf) ==
    IF pre = <<>> /\ suf = <<>> THEN ps
    ELSE IF [i \in 1..Len(ps) |-> ps[i].name] = <<"default">> THEN ps
    ELSE [i \in 1..Len(ps) |->
             [name |-> ps[i].name, text |-> CascadeOne(ps[i].text, pre, suf)]]

---------------------------------------------------------------------------
(* Input texts: every sequence of at most n lines of an alphabet, each     *)
(* line ended by a newline, and the same text without its final newline.   *)

RECURSIVE Unlines(_)
Unlines(ls) == IF ls = <<>> THEN <<>> ELSE Head(ls) \o <<NL>> \o Unlines(Tail(ls))

TextsOf(alphabet, n) ==
    LET full == {Unlines(f) : f \in UNION {[1..k -> alphabet] : k \in 0..n}}
    IN  full \cup {SubSeq(T, 1, Len(T) - 1) : T \in full \ {<<>>}}

MaxLines == 3

\* the lines of the texts given to scan_spec
ScanLines ==
    { <<At("match"), SP, W("v")>>,
      <<At("match"), SP, W("state")>>,
      <<At("if"), SP, W("v")>>,
      <<At("if"), SP, W("state")>>,
      <<At("embed"), SP, W("file"), COLON, SP, V("v")>>,
      <<At("refine"), SP, V("state")>>,
      <<W("Hi"), SP, V("v"), SP, V("state")>>,
      <<SP, SP, Q("a"), SP, ARROW, SP, W("x")>>,
      <<Q("b"), SP, ARROW>>,
      <<W("_"), SP, ARROW, SP, W("d")>>,
      <<>>,
      <<HASH, SP, W("T")>> }

NoPrompts == <<>>

InitScan ==
    /\ spec_text \in TextsOf(ScanLines, MaxLines)
    /\ pc = "start"
    /\ meta = None
    /\ root = None
    /\ prompts = NoPrompts
    /\ prefix = <<>>
    /\ suffix = <<>>
    /\ cascaded = None

\* a call of scan_spec(spec_text)
ScanSpec ==
    /\ pc = "start"
    /\ meta' = Some(scan_spec(spec_text))
    /\ pc' = "scanned"
    /\ UNCHANGED <<spec_text, root, prompts, prefix, suffix, cascaded>>

NextScan == ScanSpec

Spec == InitScan /\ [][NextScan]_vars

---------------------------------------------------------------------------
(* Claims about scan_spec *)

Scanned == pc = "scanned"
Inputs == meta[1].inputs

\* the descriptors of the result that carry the name
InputsNamed(name) == {i \in 1..Len(Inputs) : Inputs[i].name = name}

\* the names of the first word-captures of a directive
DirectiveVars(kw, T) == {c[1].n : c \in Range(FindAll(kw, T))}

\* the roles a name can occur in
MatchVars(T) == DirectiveVars("match", T)
IfVars(T) == DirectiveVars("if", T)
FileVars(T) ==
    LET paths == UNION {Range(FindAll(kw, T)) :
                        kw \in {"embed", "summarize", "compress", "extract", "refine"}}
    IN  {MustacheVars(path)[1] : path \in {q \in paths : MustacheVars(q) # <<>>}}
BareVars(T) == Range(MustacheVars(T))

\* the first position of a token of the text, 0 if it has none
FirstPos(T, t) ==
    IF \E i \in 1..Len(T) : T[i] = t
    THEN CHOOSE i \in 1..Len(T) : T[i] = t /\ \A j \in 1..(i - 1) : T[j] # t
    ELSE 0

\* a line that opens with "#" or with a directive keyword, indented or not
IsMarkedLine(line) ==
    LET s == Strip(line) IN s # <<>> /\ s[1].k \in {"hash", "at"}

\* a text with no heading line, no directive line and no placeholder
IsPlainText(T) ==
    /\ \A i \in 1..Len(T) : T[i].k # "var"
    /\ \A l \in Range(SplitNL(T)) : ~IsMarkedLine(l)

DefaultMeta ==
    [title |-> <<>>, description |-> <<>>, inputs |-> <<>>, execution |-> None,
     prompt_names |-> <<>>, tool_names |-> <<>>, refine_files |-> <<>>,
     embed_files |-> <<>>, assertions |-> <<>>, has_notes |-> FALSE]

MetaFields ==
    {"title", "description", "inputs", "execution", "prompt_names", "tool_names",
     "refine_files", "embed_files", "assertions", "has_notes"}

C2_OneDescriptorPerName ==
    Scanned =>
        /\ \A i, j \in 1..Len(Inputs) : Inputs[i].name = Inputs[j].name => i = j
        /\ \A name \in MatchVars(spec_text) \cup IfVars(spec_text) \cup FileVars(spec_text)
                        \cup (BareVars(spec_text) \ _INTERNAL_VARS) :
              Cardinality(InputsNamed(name)) = 1

\* a name in three roles, one of them twice
C2_Witness ==
    /\ Scanned
    /\ "v" \in MatchVars(spec_text) \cap IfVars(spec_text) \cap BareVars(spec_text)
    /\ Cardinality(InputsNamed("v")) = 1

\* the input types of the descriptors that carry the name
KindsOf(name) == {Inputs[i].input_type : i \in InputsNamed(name)}

\* C3: the kind of a name's descriptor is that of its highest role, select
\* over boolean over file over text/multiline, wherever the roles stand in
\* the text.
C3_KindByPrecedence ==
    Scanned =>
        \A name \in BareVars(spec_text) \cup MatchVars(spec_text)
                     \cup IfVars(spec_text) \cup FileVars(spec_text) :
            LET T == spec_text
            IN  IF name \in MatchVars(T) THEN KindsOf(name) = {"select"}
                ELSE IF name \in IfVars(T) THEN KindsOf(name) = {"boolean"}
                ELSE IF name \in FileVars(T) THEN KindsOf(name) = {"file"}
                ELSE name \notin _INTERNAL_VARS =>
                        /\ KindsOf(name) # {}
                        /\ KindsOf(name) \subseteq {"text", "multiline"}

\* the bare placeholder and the @if stand before the @match of the same
\* name, and the descriptor is the one select
C3_Witness ==
    /\ Scanned
    /\ "v" \in MatchVars(spec_text) \cap IfVars(spec_text) \cap BareVars(spec_text)
    /\ FirstPos(spec_text, V("v")) < FirstPos(spec_text, At("if"))
    /\ FirstPos(spec_text, At("if")) < FirstPos(spec_text, At("match"))
    /\ KindsOf("v") = {"select"}
    /\ Cardinality(InputsNamed("v")) = 1

\* C4: no descriptor of the result has a reserved name.
C4_NoReservedName ==
    Scanned => \A i \in 1..Len(Inputs) : Inputs[i].name \notin _INTERNAL_VARS

\* the token at i opens a case of the text from position from on: only
\* blanks stand between the start of its line (or from) and it, and "==>"
\* is the next token that is not white space
OpensCase(T, i, from) ==
    /\ i >= from
    /\ \E b \in from..i :
          /\ b = from \/ T[b - 1].k = "nl"
          /\ \A j \in b..(i - 1) : IsHWS(T[j])
    /\ \E r \in (i + 1)..Len(T) :
          /\ T[r] = ARROW
          /\ \A j \in (i + 1)..(r - 1) : IsWS(T[j])

\* the literals of the quoted cases from position from on, in text order
CaseLiteralsAfter(T, from) ==
    LET at == SelectSeq([i \in 1..Len(T) |-> i],
                        LAMBDA i : T[i].k = "q" /\ OpensCase(T, i, from))
    IN  [j \in 1..Len(at) |-> T[at[j]].n]

WildcardAfter(T, from) == \E i \in 1..Len(T) : T[i] = W("_") /\ OpensCase(T, i, from)

\* C10: with a single @match in the text and no wildcard case after it, the
\* variable's descriptor is a select whose options are the literals of the
\* quoted cases that follow the directive, in text order.
C10_SingleMatchOptions ==
    Scanned =>
        LET ms == FindIter("match", spec_text)
        IN  (Len(ms) = 1 /\ ~WildcardAfter(spec_text, ms[1].end)) =>
                /\ InputsNamed(ms[1].cap[1].n) # {}
                /\ \A i \in InputsNamed(ms[1].cap[1].n) :
                      /\ Inputs[i].input_type = "select"
                      /\ Inputs[i].options =
                            Some(CaseLiteralsAfter(spec_text, ms[1].end))

\* the one @match followed by two quoted cases: two options, in text order
C10_Witness ==
    /\ Scanned
    /\ Len(FindIter("match", spec_text)) = 1
    /\ ~WildcardAfter(spec_text, 1)
    /\ Len(CaseLiteralsAfter(spec_text, 1)) = 2
    /\ \E i \in InputsNamed("v") : Inputs[i].options = Some(<<"a", "b">>)


---------------------------------------------------------------------------
(* scan_spec on texts of placeholders *)

MaxPlainLines == 3

\* lines of plain text with placeholders, and one directive line
PlainLines ==
    { <<V("v"), SP, V("body")>>,
      <<V("body"), SP, W("and"), SP, V("v")>>,
      <<V("state"), SP, V("my_body")>>,
      <<V("Body"), V("Body")>>,
      <<V("edited_content")>>,
      <<LB, SP, W("v"), SP, RB>>,
      <<W("text"), SP, V("v"), V("v")>>,
      <<At("match"), SP, W("v")>> }

InitPlain ==
    /\ spec_text \in TextsOf(PlainLines, MaxPlainLines)
    /\ pc = "start"
    /\ meta = None
    /\ root = None
    /\ prompts = NoPrompts
    /\ prefix = <<>>
    /\ suffix = <<>>
    /\ cascaded = None

SpecPlain == InitPlain /\ [][NextScan]_vars

\* a text without any directive keyword
IsDirectiveFree(T) == \A i \in 1..Len(T) : T[i].k # "at"

\* the descriptors are one per name of the set, in the order in which the
\* names first occur as placeholders, each a text or multiline input as the
\* keyword heuristic says
InputsAreThePlaceholders(names) ==
    /\ {Inputs[i].name : i \in 1..Len(Inputs)} = names
    /\ \A i, j \in 1..Len(Inputs) :
          /\ Inputs[i].name = Inputs[j].name => i = j
          /\ i < j => FirstPos(spec_text, V(Inputs[i].name))
                        < FirstPos(spec_text, V(Inputs[j].name))
    /\ \A i \in 1..Len(Inputs) :
          /\ Inputs[i].input_type =
                IF _is_multiline_hint(Inputs[i].name) THEN "multiline" ELSE "text"
          /\ Inputs[i].source_directive = "{{variable}}"

\* C11 as stated: for a text without directives the descriptors are one per
\* distinct placeholder name, in first-occurrence order, each of kind text
\* or multiline by the keyword heuristic.
C11_InputsAreAllPlaceholders ==
    (Scanned /\ IsDirectiveFree(spec_text)) =>
        InputsAreThePlaceholders(BareVars(spec_text))

\* C11 amended: for a text without directives the descriptors are one per
\* distinct placeholder name that is not reserved, in first-occurrence
\* order, each of kind text or multiline by the keyword heuristic.
C11_InputsAreUserPlaceholders ==
    (Scanned /\ IsDirectiveFree(spec_text)) =>
        InputsAreThePlaceholders(BareVars(spec_text) \ _INTERNAL_VARS)

\* a text without directives in which "body" comes first and is repeated,
\* "v" is repeated and a reserved name stands between them
C11_Witness ==
    /\ Scanned
    /\ IsDirectiveFree(spec_text)
    /\ BareVars(spec_text) = {"body", "v", "state", "my_body"}
    /\ [i \in 1..Len(Inputs) |-> <<Inputs[i].name, Inputs[i].input_type>>]
          = << <<"body", "multiline">>, <<"v", "text">>, <<"my_body", "multiline">> >>
    /\ Cardinality({p \in 1..Len(spec_text) : spec_text[p] = V("v")}) >= 3


---------------------------------------------------------------------------
(* scan_spec on texts of file directives *)

MaxFileLines == 3

\* file directives with literal and {{var}} arguments, an @if of the same
\* variable, an argument with an unmatched "{{" and an @embed without "file:"
FileLines ==
    { <<At("embed"), SP, W("file"), COLON, SP, W("a"), Sym("."), W("md")>>,
      <<At("embed"), SP, W("file"), COLON, SP, V("v")>>,
      <<At("summarize"), SP, W("file"), COLON, V("v")>>,
      <<SP, SP, At("extract"), SP, W("file"), COLON, SP, W("a"), Sym("."), W("md")>>,
      <<At("refine"), SP, W("base"), Sym("."), W("md")>>,
      <<At("refine"), SP, V("v")>>,
      <<At("refine"), SP, V("w"), Sym("/"), W("x")>>,
      <<At("if"), SP, W("v")>>,
      <<At("compress"), SP, W("file"), COLON, SP, LB, W("x")>>,
      <<At("embed"), SP, V("w")>> }

InitFiles ==
    /\ spec_text \in TextsOf(FileLines, MaxFileLines)
    /\ pc = "start"
    /\ meta = None
    /\ root = None
    /\ prompts = NoPrompts
    /\ prefix = <<>>
    /\ suffix = <<>>
    /\ cascaded = None

SpecFiles == InitFiles /\ [][NextScan]_vars

\* how often x stands in a list
Count(xs, x) == Cardinality({i \in 1..Len(xs) : xs[i] = x})

\* the arguments of the occurrences of the four "file:" directives, and of @refine
EmbedArgs(T) ==
    FindAll("embed", T) \o FindAll("summarize", T) \o FindAll("compress", T)
        \o FindAll("extract", T)
RefineArgs(T) == FindAll("refine", T)

\* an argument without any brace pair, and one that holds a placeholder
IsLiteralPath(path) == \A i \in 1..Len(path) : path[i].k \notin {"var", "lb", "rb"}
IsVarRef(path) == \E i \in 1..Len(path) : path[i].k = "var"

\* C12: a literal path is in embed_files (refine_files for @refine) once
\* per occurrence of a directive with that argument; neither list holds a
\* path with a placeholder; the variable of a {{var}} argument has exactly
\* one descriptor, a file input with a non-empty file_hint unless the name
\* is the subject of a @match or @if; and no file input has another name.
C12_FileDirectiveTargets ==
    Scanned =>
        LET T == spec_text
            m == meta[1]
        IN  /\ \A p \in Range(EmbedArgs(T)) \cup Range(m.embed_files) :
                  IsLiteralPath(p) => Count(m.embed_files, p) = Count(EmbedArgs(T), p)
            /\ \A p \in Range(RefineArgs(T)) \cup Range(m.refine_files) :
                  IsLiteralPath(p) => Count(m.refine_files, p) = Count(RefineArgs(T), p)
            /\ \A p \in Range(m.embed_files) \cup Range(m.refine_files) : ~IsVarRef(p)
            /\ \A name \in FileVars(T) :
                  /\ Cardinality(InputsNamed(name)) = 1
                  /\ name \notin MatchVars(T) \cup IfVars(T) =>
                        \A i \in InputsNamed(name) :
                            /\ Inputs[i].input_type = "file"
                            /\ Inputs[i].file_hint # None
                            /\ Inputs[i].file_hint[1] # ""
            /\ \A i \in 1..Len(Inputs) :
                  Inputs[i].input_type = "file" => Inputs[i].name \in FileVars(T)

\* the same literal path under two file directives and a @refine {{v}}: the
\* path is listed twice, refine_files is empty and v is a file input
C12_Witness ==
    /\ Scanned
    /\ Count(EmbedArgs(spec_text), <<W("a"), Sym("."), W("md")>>) = 2
    /\ meta[1].embed_files = << <<W("a"), Sym("."), W("md")>>, <<W("a"), Sym("."), W("md")>> >>
    /\ RefineArgs(spec_text) = << <<V("v")>> >>
    /\ meta[1].refine_files = <<>>
    /\ \E i \in InputsNamed("v") :
          Inputs[i].input_type = "file" /\ Inputs[i].source_directive = "@refine"


---------------------------------------------------------------------------
(* scan_spec on texts of @execute headers and parameter lines *)

MaxExecLines == 3

\* two headers (the second with a space after the strategy name), parameter
\* lines, an indented line without a colon, a blank indented line, an empty
\* line, a block of three parameter lines and a @tool with its own parameter
ExecLines ==
    { <<At("execute"), SP, W("tot")>>,
      <<At("execute"), SP, W("cot"), SP>>,
      <<SP, SP, W("k"), COLON, SP, W("3")>>,
      <<TAB, W("t"), COLON, SP, W("1"), Sym("."), W("5")>>,
      <<SP, SP, W("type"), COLON, SP, W("x")>>,
      <<SP, SP, W("plain")>>,
      <<SP, SP>>,
      <<>>,
      <<SP, W("a"), COLON, Sym("-"), W("07"), SP, NL,
        SP, W("b"), SP, COLON, SP, W("1e5"), NL,
        SP, W("c"), COLON, SP, W("3"), SP, W("x"), COLON, W("y")>>,
      <<At("tool"), SP, W("s"), NL, SP, SP, W("z"), COLON, SP, W("9")>> }

InitExec ==
    /\ spec_text \in TextsOf(ExecLines, MaxExecLines)
    /\ pc = "start"
    /\ meta = None
    /\ root = None
    /\ prompts = NoPrompts
    /\ prefix = <<>>
    /\ suffix = <<>>
    /\ cascaded = None

SpecExec == InitExec /\ [][NextScan]_vars

\* a line without its leading blanks
Unindent(line) == SubSeq(line, SkipHWS(line, 1), Len(line))

\* an execute-header line: "@execute", blanks and a strategy name
IsExecuteHeader(line) ==
    LET s == Unindent(line)
    IN  /\ Len(s) >= 3
        /\ s[1] = At("execute")
        /\ IsHWS(s[2])
        /\ SkipHWS(s, 2) <= Len(s)

\* the strategy name written on an execute-header line
StrategyName(line) ==
    LET s == Unindent(line)
        a == SkipHWS(s, 2)
    IN  SubSeq(s, a, RunEnd(s, a) - 1)

\* the indexes of the execute-header lines of a text
ExecuteHeaders(T) ==
    {i \in 1..Len(SplitNL(T)) : IsExecuteHeader(SplitNL(T)[i])}

TypeKey == <<W("type")>>

\* C13: execution is None exactly when the text has no execute-header line;
\* otherwise it has the key "type", whose value is the strategy name of the
\* first execute-header line.
C13_TypeIsFirstStrategy ==
    Scanned =>
        LET hs == ExecuteHeaders(spec_text)
            exec == meta[1].execution
        IN  /\ exec = None <=> hs = {}
            /\ hs # {} =>
                  /\ TypeKey \in DOMAIN exec[1]
                  /\ exec[1][TypeKey]
                        = StrValue(StrategyName(SplitNL(spec_text)[Min(hs)]))


\* an indented line that is not blank
IsIndentedText(line) == IsIndented(line) /\ Strip(line) # <<>>

RECURSIVE IndentedRunEnd(_, _)
\* the index of the first line at or after i that is not an indented,
\* non-blank line (Len(lines)+1 if none)
IndentedRunEnd(lines, i) ==
    IF i <= Len(lines) /\ IsIndentedText(lines[i])
    THEN IndentedRunEnd(lines, i + 1) ELSE i

\* the key and the value of a line "key: value"
KeyOf(line) == Strip(SubSeq(line, 1, ColonPos(line, 1) - 1))
ValueOf(line) == Strip(SubSeq(line, ColonPos(line, 1) + 1, Len(line)))

\* the indexes of the parameter lines of the header at line h: the lines
\* with a colon among the indented lines that directly follow it
ParamLinesOf(lines, h) ==
    {i \in (h + 1)..(IndentedRunEnd(lines, h + 1) - 1) : ColonPos(lines[i], 1) > 0}

\* C14: the keys of execution are "type" and the keys of the parameter
\* lines of the first execute header, no others, and each key has the value
\* written on its (last) line.
C14_ParamsOfFirstHeader ==
    Scanned =>
        LET lines == SplitNL(spec_text)
            hs == ExecuteHeaders(spec_text)
        IN  hs # {} =>
              LET ps == ParamLinesOf(lines, Min(hs))
                  exec == meta[1].execution[1]
              IN  /\ DOMAIN exec = {TypeKey} \cup {KeyOf(lines[i]) : i \in ps}
                  /\ \A i \in ps :
                        (\A j \in ps : j > i => KeyOf(lines[j]) # KeyOf(lines[i]))
                            => exec[KeyOf(lines[i])] = Coerce(ValueOf(lines[i]))


\* the lines of the parameter block that the first @execute match captured
CapturedParamLines(T) == SplitLines(Strip(FindIter("execute", T)[1].block))

\* the stored entry is the integer, else the float, else the trimmed string
\* that the written value stands for
StoredAs(entry, v) ==
    IF IsInt(v) THEN entry.ty = "int" /\ entry.num = IntValue(v)
    ELSE IF IsFloat(v) THEN entry.ty = "float" /\ entry.raw = v
    ELSE entry.ty = "str" /\ entry.raw = v

\* C15: every captured parameter line "key: value" has its key in execution,
\* and the value stored for a key is that of its last line: an integer when
\* the value reads as one, else a float when it reads as one, else the
\* trimmed string.
C15_ValueCoercion ==
    (Scanned /\ meta[1].execution # None) =>
        LET ls == CapturedParamLines(spec_text)
            ps == {i \in 1..Len(ls) : ColonPos(ls[i], 1) > 0}
            exec == meta[1].execution[1]
        IN  \A i \in ps :
              /\ KeyOf(ls[i]) \in DOMAIN exec
              /\ (\A j \in ps : j > i => KeyOf(ls[j]) # KeyOf(ls[i]))
                    => StoredAs(exec[KeyOf(ls[i])], ValueOf(ls[i]))

\* a header with the parameters "a:-07", "b : 1e5" and "c: 3 x:y": the
\* integer -7, a float and the string "3 x:y"
C15_Witness ==
    /\ Scanned
    /\ meta[1].execution # None
    /\ Len(CapturedParamLines(spec_text)) = 3
    /\ LET exec == meta[1].execution[1]
       IN  /\ DOMAIN exec = {TypeKey, <<W("a")>>, <<W("b")>>, <<W("c")>>}
           /\ exec[<<W("a")>>] = [ty |-> "int", num |-> 0 - 7, raw |-> <<>>]
           /\ exec[<<W("b")>>].ty = "float"
           /\ exec[<<W("c")>>] = StrValue(<<W("3"), SP, W("x"), COLON, W("y")>>)


---------------------------------------------------------------------------
(* scan_spec on texts of @prompt and @tool directives *)

MaxNameLines == 3

\* @prompt and @tool lines, indented or not, with repeated names, a
\* "@prompts" line and a "@prompt" that does not open its line
NameLines ==
    { <<At("prompt"), SP, W("gen")>>,
      <<SP, SP, At("prompt"), SP, W("ev")>>,
      <<TAB, At("prompt"), SP, SP, W("gen")>>,
      <<At("tool"), SP, W("search")>>,
      <<SP, SP, SP, SP, At("tool"), SP, W("calc"), Sym("-"), W("1")>>,
      <<SP, SP, At("tool"), SP, W("search"), SP, W("desc")>>,
      <<At("prompts"), SP, W("gen")>>,
      <<W("text"), SP, At("prompt"), SP, W("no")>> }

InitNames ==
    /\ spec_text \in TextsOf(NameLines, MaxNameLines)
    /\ pc = "start"
    /\ meta = None
    /\ root = None
    /\ prompts = NoPrompts
    /\ prefix = <<>>
    /\ suffix = <<>>
    /\ cascaded = None

SpecNames == InitNames /\ [][NextScan]_vars

\* the token at p is the first of its line that is not a blank
OpensLine(T, p) ==
    \E b \in 1..p : IsLineStart(T, b) /\ \A j \in b..(p - 1) : IsHWS(T[j])

\* the positions of the arguments of the occurrences of the directive kw:
\* the keyword opens a line and blanks and an argument follow it
ArgPositions(T, kw) ==
    LET heads == SelectSeq([p \in 1..Len(T) |-> p],
                     LAMBDA p : /\ T[p] = At(kw)
                                /\ OpensLine(T, p)
                                /\ p + 1 <= Len(T) /\ IsHWS(T[p + 1])
                                /\ SkipHWS(T, p + 1) <= Len(T)
                                /\ ~IsWS(T[SkipHWS(T, p + 1)]))
    IN  [j \in 1..Len(heads) |-> SkipHWS(T, heads[j] + 1)]

\* the arguments of the @prompt occurrences (names) and of the @tool
\* occurrences (runs without white space), in text order
PromptArgs(T) ==
    LET at == SelectSeq(ArgPositions(T, "prompt"), LAMBDA a : T[a].k = "word")
    IN  [j \in 1..Len(at) |-> T[at[j]].n]
ToolArgs(T) ==
    LET at == ArgPositions(T, "tool")
    IN  [j \in 1..Len(at) |-> SubSeq(T, at[j], RunEnd(T, at[j]) - 1)]

\* the index of the first occurrence of x in xs
FirstIndex(xs, x) == Min({i \in 1..Len(xs) : xs[i] = x})

\* names lists the elements of args once each, in first-occurrence order
ListsFirstOccurrences(names, args) ==
    /\ Range(names) = Range(args)
    /\ \A i, j \in 1..Len(names) :
          /\ names[i] = names[j] => i = j
          /\ i < j => FirstIndex(args, names[i]) < FirstIndex(args, names[j])

\* C16: prompt_names lists the argument of every @prompt occurrence, the
\* indented ones too, once each in first-occurrence order; tool_names does
\* the same for @tool.
C16_NamesInFirstOccurrenceOrder ==
    Scanned =>
        /\ ListsFirstOccurrences(meta[1].prompt_names, PromptArgs(spec_text))
        /\ ListsFirstOccurrences(meta[1].tool_names, ToolArgs(spec_text))

\* "gen" stands before and after the indented "ev": it is listed once, first
C16_Witness ==
    /\ Scanned
    /\ PromptArgs(spec_text) = <<"gen", "ev", "gen">>
    /\ meta[1].prompt_names = <<"gen", "ev">>


---------------------------------------------------------------------------
(* scan_spec on texts of @note blocks and placeholders *)

MaxNoteLines == 3

\* two @note blocks, a placeholder line, an indented placeholder line, runs
\* of one, five and six text lines, one and six empty lines, a "@note" line
\* without a body and a "@note" line with text after the keyword
NoteLines ==
    { <<At("note"), NL, SP, SP, W("About"), SP, W("it")>>,
      <<At("note"), NL, SP, SP, W("Second")>>,
      <<V("v")>>,
      <<SP, SP, V("v"), SP, W("in")>>,
      <<W("x")>>,
      <<W("x"), NL, W("x"), NL, W("x"), NL, W("x"), NL, W("x")>>,
      <<W("x"), NL, W("x"), NL, W("x"), NL, W("x"), NL, W("x"), NL, W("x")>>,
      <<>>,
      <<NL, NL, NL, NL, NL>>,
      <<At("note")>>,
      <<At("note"), SP, W("inline")>> }

InitNotes ==
    /\ spec_text \in TextsOf(NoteLines, MaxNoteLines)
    /\ pc = "start"
    /\ meta = None
    /\ root = None
    /\ prompts = NoPrompts
    /\ prefix = <<>>
    /\ suffix = <<>>
    /\ cascaded = None

SpecNotes == InitNotes /\ [][NextScan]_vars

\* a line that opens an annotation block: "@note" after optional blanks
IsNoteLine(line) == StartsWith(Unindent(line), At("note"))

\* the last line of the annotation block that opens at line i: the run of
\* indented, non-blank lines after it ends at the first blank or
\* unindented line
BlockLastLine(lines, i) == IndentedRunEnd(lines, i + 1) - 1

\* the annotation blocks of a text: [first, last, text]
AnnotationBlocks(T) ==
    LET lines == SplitLines(T)
        heads == SelectSeq([i \in 1..Len(lines) |-> i], LAMBDA i : IsNoteLine(lines[i]))
    IN  [b \in 1..Len(heads) |->
            [first |-> heads[b],
             last |-> BlockLastLine(lines, heads[b]),
             text |-> JoinWith(<<SP>>,
                        [j \in 1..(BlockLastLine(lines, heads[b]) - heads[b]) |->
                            Strip(lines[heads[b] + j])])]]

\* the lines on which {{name}} stands
PlaceholderLines(T, name) ==
    {p \in 1..Len(SplitLines(T)) : V(name) \in Range(SplitLines(T)[p])}

\* the blocks whose last line is at most NoteWindow lines before line p
BlocksNear(T, p) ==
    SelectSeq(AnnotationBlocks(T),
              LAMBDA b : 1 <= p - b.last /\ p - b.last <= NoteWindow)

\* C17: a descriptor has a description exactly when an annotation block's
\* last line stands 1 to 5 lines before a line that holds the variable's
\* placeholder, whatever the lines between them hold.
C17_DescriptionIffBlockWithinWindow ==
    Scanned =>
        \A i \in 1..Len(Inputs) :
            Inputs[i].description # None
                <=> \E p \in PlaceholderLines(spec_text, Inputs[i].name) :
                        BlocksNear(spec_text, p) # <<>>


\* C18: when two or more annotation blocks end within the window before
\* the one line that holds a variable's placeholder, the description is the
\* text of the nearest of them, the last one above the placeholder.
C18_NearestBlockWins ==
    Scanned =>
        \A i \in 1..Len(Inputs) :
            LET ps == PlaceholderLines(spec_text, Inputs[i].name)
            IN  Cardinality(ps) = 1 =>
                  LET near == BlocksNear(spec_text, Min(ps))
                  IN  Len(near) >= 2 =>
                        Inputs[i].description
                            = Some(Truncate(near[Len(near)].text, NoteCap))


\* C19: has_notes is true exactly when the text has an annotation block,
\* which is exactly when _extract_note_hints finds a block: a "@note" line
\* at the end of the text or with text after the keyword counts for both.
C19_HasNotesIffBlockFound ==
    Scanned =>
        /\ meta[1].has_notes <=> AnnotationBlocks(spec_text) # <<>>
        /\ meta[1].has_notes <=> NoteRanges(SplitLines(spec_text), 1) # <<>>


\* the descriptor d has a description that is not empty
HasHelpText(d) == d.description # None /\ d.description[1] # <<>>

\* C29: if a descriptor has a description then has_notes is true.
C29_DescriptionImpliesHasNotes ==
    Scanned =>
        ((\E i \in 1..Len(Inputs) : HasHelpText(Inputs[i])) => meta[1].has_notes)

\* the same for the texts in which every "@note" line holds the keyword alone
C29_WhenNoteLinesAreBare ==
    Scanned =>
        ((\A i \in 1..Len(SplitLines(spec_text)) :
              IsNoteLine(SplitLines(spec_text)[i]) =>
                  Strip(SplitLines(spec_text)[i]) = <<At("note")>>)
            => ((\E i \in 1..Len(Inputs) : HasHelpText(Inputs[i]))
                    => meta[1].has_notes))

---------------------------------------------------------------------------
(* scan_spec on texts of heading lines *)

MaxTitleLines == 3

\* headings of level one and two, a "#" alone, a "#" with a space only, an
\* indented heading, a heading with a tab, a "#" without blank, text and an
\* empty line
TitleLines ==
    { <<HASH, SP, W("T")>>,
      <<HASH, HASH, SP, W("Sub")>>,
      <<HASH>>,
      <<HASH, SP>>,
      <<SP, SP, HASH, SP, W("In")>>,
      <<HASH, SP, W("Two"), SP, W("words"), SP>>,
      <<HASH, TAB, W("Tabbed")>>,
      <<HASH, W("tag")>>,
      <<W("text")>>,
      <<>> }

InitTitle ==
    /\ spec_text \in TextsOf(TitleLines, MaxTitleLines)
    /\ pc = "start"
    /\ meta = None
    /\ root = None
    /\ prompts = NoPrompts
    /\ prefix = <<>>
    /\ suffix = <<>>
    /\ cascaded = None

SpecTitle == InitTitle /\ [][NextScan]_vars

\* a top-level heading line: one "#", then a blank
IsTopHeading(line) == Len(line) >= 2 /\ line[1] = HASH /\ IsHWS(line[2])

\* the text of a heading line
HeadingText(line) == Strip(SubSeq(line, 2, Len(line)))

\* C20: title is the text of the first line that starts with one "#" and a
\* blank, and is empty when the text has no such line; a line that starts
\* with "##" never gives the title.
C20_TitleIsFirstTopHeading ==
    Scanned =>
        LET lines == SplitNL(spec_text)
            hs == {i \in 1..Len(lines) : IsTopHeading(lines[i])}
        IN  meta[1].title = IF hs = {} THEN <<>> ELSE HeadingText(lines[Min(hs)])

---------------------------------------------------------------------------
(* scan_spec on texts of a title line, free text and directive lines *)

MaxDescLines == 3

\* a title line, a second-level heading, an indented title line, text, text
\* with blanks around it, an empty line, a directive line, an indented
\* directive line, a placeholder and a "#" without blank
DescriptionLines ==
    { <<HASH, SP, W("T")>>,
      <<HASH, HASH, SP, W("Sub")>>,
      <<SP, SP, HASH, SP, W("In")>>,
      <<W("text")>>,
      <<SP, W("more"), SP, W("text"), SP>>,
      <<>>,
      <<At("execute"), SP, W("tot")>>,
      <<SP, SP, At("note")>>,
      <<V("v")>>,
      <<HASH, W("tag")>> }

InitDesc ==
    /\ spec_text \in TextsOf(DescriptionLines, MaxDescLines)
    /\ pc = "start"
    /\ meta = None
    /\ root = None
    /\ prompts = NoPrompts
    /\ prefix = <<>>
    /\ suffix = <<>>
    /\ cascaded = None

SpecDesc == InitDesc /\ [][NextScan]_vars

\* a title line: "# " and text, after optional indentation
IsTitleLine(line) ==
    LET s == Strip(line) IN Len(s) >= 2 /\ s[1] = HASH /\ s[2] = SP

\* a directive line: "@" first, after optional indentation
IsDirectiveLine(line) ==
    LET s == Strip(line) IN s # <<>> /\ s[1].k = "at"

\* a heading line: "#" first, after optional indentation
IsHeadingLine(line) == StartsWith(Strip(line), HASH)

\* the lines strictly after line t up to the first directive or heading line
RunAfter(lines, t) ==
    LET stops == {i \in (t + 1)..Len(lines) :
                     IsDirectiveLine(lines[i]) \/ IsHeadingLine(lines[i])}
        e == IF stops = {} THEN Len(lines) + 1 ELSE Min(stops)
    IN  SubSeq(lines, t + 1, e - 1)

\* C21: description is the trimmed text of the lines strictly after the title
\* line up to the first following directive line or heading, wherever the
\* title line stands in the text; it is empty when the text has no title line.
C21_DescriptionFollowsTitle ==
    Scanned =>
        LET lines == SplitLines(spec_text)
            ts == {i \in 1..Len(lines) : IsTitleLine(lines[i])}
        IN  meta[1].description =
                IF ts = {} THEN <<>> ELSE Strip(JoinNL(RunAfter(lines, Min(ts))))

\* the same statement for the texts in which no directive line stands before
\* the title line
C21_WhenNoDirectiveBefore ==
    Scanned =>
        LET lines == SplitLines(spec_text)
            ts == {i \in 1..Len(lines) : IsTitleLine(lines[i])}
        IN  (ts # {} /\ \E i \in 1..(Min(ts) - 1) : IsDirectiveLine(lines[i]))
            \/ meta[1].description =
                IF ts = {} THEN <<>> ELSE Strip(JoinNL(RunAfter(lines, Min(ts))))

---------------------------------------------------------------------------
(* Several calls of scan_spec, one after the other *)

MaxRescanLines == 2

MaxScans == 3

\* a select directive with a case, a condition, a file directive, text with
\* placeholders, an annotation block and a title line
RescanLines ==
    { <<At("match"), SP, W("v"), NL, SP, SP, Q("a"), SP, ARROW, SP, W("x")>>,
      <<At("if"), SP, W("state")>>,
      <<At("embed"), SP, W("file"), COLON, SP, V("v")>>,
      <<W("Hi"), SP, V("v"), SP, V("state")>>,
      <<At("note"), NL, SP, SP, W("About"), SP, V("v")>>,
      <<HASH, SP, W("T")>> }

\* the texts of the calls made in between
OtherTexts ==
    { <<At("if"), SP, W("v"), NL, V("state")>>,
      <<HASH, SP, W("U"), NL, At("prompt"), SP, W("gen")>> }

InitRescan ==
    /\ spec_text \in TextsOf(RescanLines, MaxRescanLines)
    /\ pc = "start"
    /\ meta = None
    /\ root = None
    /\ prompts = NoPrompts
    /\ prefix = <<>>
    /\ suffix = <<>>
    /\ cascaded = None

\* a call of scan_spec(T); meta holds the records returned so far, in the
\* order of the calls. The first call is on spec_text, the later ones on
\* spec_text again or on another text.
ScanCall(T) ==
    /\ Len(meta) < MaxScans
    /\ pc = "start" => T = spec_text
    /\ meta' = Append(meta, scan_spec(T))
    /\ pc' = IF pc = "start" THEN "scanned" ELSE IF T = spec_text THEN "again" ELSE "other"
    /\ UNCHANGED <<spec_text, root, prompts, prefix, suffix, cascaded>>

NextRescan == \E T \in {spec_text} \cup OtherTexts : ScanCall(T)

SpecRescan == InitRescan /\ [][NextRescan]_vars

---------------------------------------------------------------------------
(* scan_spec on texts of select directives and case lines *)

MaxMatchLines == 4

\* two select directives, quoted cases (one indented, one repeating a
\* literal), a wildcard case, and text with a placeholder
MatchLines ==
    { <<At("match"), SP, W("v")>>,
      <<At("match"), SP, W("w")>>,
      <<SP, SP, Q("a"), SP, ARROW, SP, W("x")>>,
      <<Q("b"), SP, ARROW>>,
      <<Q("a"), ARROW, SP, W("y")>>,
      <<SP, W("_"), SP, ARROW, SP, W("d")>>,
      <<W("Hi"), SP, V("v")>> }

InitMatch ==
    /\ spec_text \in TextsOf(MatchLines, MaxMatchLines)
    /\ pc = "start"
    /\ meta = None
    /\ root = None
    /\ prompts = NoPrompts
    /\ prefix = <<>>
    /\ suffix = <<>>
    /\ cascaded = None

SpecMatch == InitMatch /\ [][NextScan]_vars

\* the @match directives of the text that give a descriptor: for each
\* variable the first one
FirstMatches(T) ==
    LET ms == FindIter("match", T)
    IN  SelectSeq(ms, LAMBDA m : \A k \in 1..Len(ms) :
                          ms[k].cap = m.cap => ms[k].start >= m.start)

\* the positions from position from on that open a case line, quoted or
\* wildcard, in text order
CasePositionsAfter(T, from) ==
    SelectSeq([i \in 1..Len(T) |-> i],
              LAMBDA i : (T[i].k = "q" \/ T[i] = W("_")) /\ OpensCase(T, i, from))

\* the literals and the wildcard of the case lines from position from on, in
\* the order of the lines, the wildcard at its first line only
CasesInLineOrder(T, from) ==
    LET at == CasePositionsAfter(T, from)
        kept == SelectSeq([j \in 1..Len(at) |-> j],
                          LAMBDA j : T[at[j]] = W("_") =>
                                        \A h \in 1..(j - 1) : T[at[h]] # W("_"))
    IN  [m \in 1..Len(kept) |-> T[at[kept[m]]].n]

\* the options of the descriptor of the @match directive m
OptionsOf(m) ==
    LET named == InputsNamed(m.cap[1].n)
    IN  IF named = {} THEN None ELSE Inputs[Min(named)].options

\* C25 as stated: the options are the quoted literals and the wildcard "_"
\* in the order of their case lines; "_" at most once, and only when a
\* wildcard case line follows the directive.
C25_OptionsInCaseLineOrder ==
    Scanned =>
        \A k \in 1..Len(FirstMatches(spec_text)) :
            LET m == FirstMatches(spec_text)[k]
            IN  OptionsOf(m) = Some(CasesInLineOrder(spec_text, m.end))

\* C25: the options are the quoted literals in the order of their case lines,
\* followed by the wildcard "_" as the last option when a wildcard case line
\* follows the directive, wherever it stands among the case lines; "_" is
\* there at most once and never without such a line.
C25_LiteralsInOrderThenWildcard ==
    Scanned =>
        \A k \in 1..Len(FirstMatches(spec_text)) :
            LET m == FirstMatches(spec_text)[k]
            IN  OptionsOf(m) =
                    Some(CaseLiteralsAfter(spec_text, m.end)
                         \o (IF WildcardAfter(spec_text, m.end) THEN <<"_">> ELSE <<>>))

\* a wildcard case line between two quoted cases: "_" is the last option
C25_Witness ==
    /\ Scanned
    /\ spec_text = Unlines(<< <<At("match"), SP, W("v")>>,
                              <<SP, SP, Q("a"), SP, ARROW, SP, W("x")>>,
                              <<SP, W("_"), SP, ARROW, SP, W("d")>>,
                              <<Q("b"), SP, ARROW>> >>)
    /\ \E i \in InputsNamed("v") : Inputs[i].options = Some(<<"a", "b", "_">>)

\* the @match directive after m in the text, if any: its start, else the
\* position after the end of the text
NextMatchStart(T, m) ==
    LET later == {x.start : x \in {y \in Range(FindIter("match", T)) : y.start > m.start}}
    IN  IF later = {} THEN Len(T) + 1 ELSE Min(later)

\* the literals of the quoted cases between the directive m and the next
\* @match directive, in text order
CasesOfBlock(T, m) ==
    CaseLiteralsAfter(SubSeq(T, 1, NextMatchStart(T, m) - 1), m.end)

\* no value twice
NoRepeat(s) == \A i, j \in 1..Len(s) : s[i] = s[j] => i = j

\* the options without the wildcard
Literals(opts) == SelectSeq(opts, LAMBDA o : o # "_")

\* C26: with two @match directives on different variables, the options of
\* each are the cases between its directive and the next @match directive
\* (the end of the text for the second), and no option list repeats a literal.
C26_CasesBelongToNearestMatch ==
    Scanned =>
        LET ms == FindIter("match", spec_text)
        IN  (Len(ms) = 2 /\ ms[1].cap # ms[2].cap) =>
                \A k \in 1..2 :
                    /\ OptionsOf(ms[k]) # None
                    /\ Literals(OptionsOf(ms[k])[1]) = CasesOfBlock(spec_text, ms[k])
                    /\ NoRepeat(OptionsOf(ms[k])[1])

\* the part of C26 that concerns the second directive, without the test for
\* repeated literals
C26_SecondMatchCases ==
    Scanned =>
        LET ms == FindIter("match", spec_text)
        IN  (Len(ms) = 2 /\ ms[1].cap # ms[2].cap) =>
                /\ OptionsOf(ms[2]) # None
                /\ Literals(OptionsOf(ms[2])[1]) = CasesOfBlock(spec_text, ms[2])

---------------------------------------------------------------------------
(* scan_spec on texts that give descriptors of every kind *)

MaxKindLines == 4

\* a select directive with a case, a condition, a file directive and a
\* @refine with a placeholder, text with placeholders (one with a multiline
\* name, one reserved), and a condition on a reserved name
KindLines ==
    { <<At("match"), SP, W("v"), NL, SP, SP, Q("a"), SP, ARROW, SP, W("x")>>,
      <<At("if"), SP, W("state")>>,
      <<At("embed"), SP, W("file"), COLON, SP, V("f")>>,
      <<At("refine"), SP, V("v")>>,
      <<W("Hi"), SP, V("topic"), SP, V("body"), SP, V("edited_content")>>,
      <<At("if"), SP, W("edited_content")>>,
      <<At("match"), SP, W("state")>> }

InitKinds ==
    /\ spec_text \in TextsOf(KindLines, MaxKindLines)
    /\ pc = "start"
    /\ meta = None
    /\ root = None
    /\ prompts = NoPrompts
    /\ prefix = <<>>
    /\ suffix = <<>>
    /\ cascaded = None

SpecKinds == InitKinds /\ [][NextScan]_vars

\* the values of input_type
Kinds == {"text", "multiline", "select", "boolean", "file"}

\* the optional fields of the descriptor d are those of its kind
FieldsMatchKind(d) ==
    /\ d.input_type \in Kinds
    /\ d.options # None <=> d.input_type = "select"
    /\ d.file_hint # None <=> d.input_type = "file"
    /\ d.default = Some("false") <=> d.input_type = "boolean"
    /\ d.input_type # "boolean" => d.default = None

\* C27: every descriptor has one of the five kinds; options is there iff the
\* kind is select, file_hint iff the kind is file, and default is "false"
\* iff the kind is boolean and absent otherwise.
C27_FieldsMatchKind ==
    Scanned => \A i \in 1..Len(Inputs) : FieldsMatchKind(Inputs[i])

\* a result with a descriptor of each of the five kinds
C27_Witness ==
    /\ Scanned
    /\ {Inputs[i].input_type : i \in 1..Len(Inputs)} = Kinds
    /\ \E i \in 1..Len(Inputs) : Inputs[i].input_type = "select" /\ Inputs[i].options = Some(<<"a">>)

---------------------------------------------------------------------------
(* scan_spec on texts of long annotation blocks *)

MaxCapLines == 4

\* words of 120, 79 and 80 characters
Word120 == W("xxxxxxxxxxxxxxxxxxxxxxxxxxxxxxxxxxxxxxxxxxxxxxxxxxxxxxxxxxxxxxxxxxxxxxxxxxxxxxxxxxxxxxxxxxxxxxxxxxxxxxxxxxxxxxxxxxxxxxxx")
Word79 == W("yyyyyyyyyyyyyyyyyyyyyyyyyyyyyyyyyyyyyyyyyyyyyyyyyyyyyyyyyyyyyyyyyyyyyyyyyyyyyyy")
Word80 == W("zzzzzzzzzzzzzzzzzzzzzzzzzzzzzzzzzzzzzzzzzzzzzzzzzzzzzzzzzzzzzzzzzzzzzzzzzzzzzzzz")

\* an annotation block of 120 characters, two further block lines that bring
\* it to 200 and to 201 characters, a placeholder, and directives that give
\* the variable the kinds select, boolean and file
CapLines ==
    { <<At("note"), NL, SP, SP, Word120>>,
      <<SP, SP, Word79>>,
      <<SP, SP, Word80>>,
      <<V("v")>>,
      <<At("match"), SP, W("v")>>,
      <<At("if"), SP, W("v")>>,
      <<At("embed"), SP, W("file"), COLON, SP, V("v")>> }

InitCap ==
    /\ spec_text \in TextsOf(CapLines, MaxCapLines)
    /\ pc = "start"
    /\ meta = None
    /\ root = None
    /\ prompts = NoPrompts
    /\ prefix = <<>>
    /\ suffix = <<>>
    /\ cascaded = None

SpecCap == InitCap /\ [][NextScan]_vars

\* the lines after the "@note" line h that belong to its block: the run of
\* lines that start with two spaces or are blank
BlockBody(lines, h) ==
    LET stops == {e \in (h + 1)..Len(lines) :
                     /\ Strip(lines[e]) # <<>>
                     /\ ~(Len(lines[e]) >= 2 /\ lines[e][1] = SP /\ lines[e][2] = SP)}
        e == IF stops = {} THEN Len(lines) + 1 ELSE Min(stops)
    IN  SubSeq(lines, h + 1, e - 1)

\* the space-joined non-empty lines of each annotation block of the text
BlockTexts(T) ==
    LET lines == SplitLines(T)
    IN  {JoinWith(<<SP>>, [j \in 1..Len(SelectSeq(BlockBody(lines, h), LAMBDA l : Strip(l) # <<>>)) |->
                              Strip(SelectSeq(BlockBody(lines, h), LAMBDA l : Strip(l) # <<>>)[j])]) :
            h \in {i \in 1..Len(lines) : IsNoteLine(lines[i])}}

\* C28: the description of a descriptor of any kind is absent or the first
\* 200 characters of the space-joined non-empty lines of an annotation block;
\* it is never longer than 200 characters, and it is the entry of the
\* variable in the note mapping whatever the kind of the descriptor.
C28_DescriptionIsCappedBlockText ==
    Scanned =>
        \A i \in 1..Len(Inputs) :
            /\ Inputs[i].description = HintGet(_extract_note_hints(spec_text), Inputs[i].name)
            /\ Inputs[i].description # None =>
                  /\ StrLen(Inputs[i].description[1]) <= NoteCap
                  /\ \E t \in BlockTexts(spec_text) :
                        Inputs[i].description[1] = Truncate(t, NoteCap)

\* a boolean descriptor whose block has 201 characters: the description is
\* its first 200
C28_Witness ==
    /\ Scanned
    /\ \E i \in 1..Len(Inputs) :
          /\ Inputs[i].input_type = "boolean"
          /\ Inputs[i].description # None
          /\ StrLen(Inputs[i].description[1]) = NoteCap
          /\ \E t \in BlockTexts(spec_text) :
                StrLen(t) = NoteCap + 1 /\ Inputs[i].description[1] = Truncate(t, NoteCap)

---------------------------------------------------------------------------
(* The segmenter: _extract_root_text applied to a text *)

MaxRootLines == 4

\* the lines of the texts given to _extract_root_text
RootLines ==
    { <<At("prompt"), SP, W("gen")>>,
      <<SP, SP, At("prompt"), SP, W("ev")>>,
      <<At("prompt"), W("s")>>,
      <<At("execute"), SP, W("tot")>>,
      <<SP, SP, W("k"), COLON, SP, W("3")>>,
      <<TAB>>,
      <<>>,
      <<W("Root"), SP, V("v")>>,
      <<At("refine"), SP, W("b")>> }

InitRoot ==
    /\ spec_text \in TextsOf(RootLines, MaxRootLines)
    /\ pc = "start"
    /\ meta = None
    /\ root = None
    /\ prompts = NoPrompts
    /\ prefix = <<>>
    /\ suffix = <<>>
    /\ cascaded = None

\* a call of _extract_root_text(spec_text)
ExtractRootText ==
    /\ pc = "start"
    /\ root' = Some(_extract_root_text(spec_text))
    /\ pc' = "extracted"
    /\ UNCHANGED <<spec_text, meta, prompts, prefix, suffix, cascaded>>

NextRoot == ExtractRootText

SpecRoot == InitRoot /\ [][NextRoot]_vars

Extracted == pc = "extracted"
RootLinesOf(T) == SplitNL(T)

\* the lines that are @prompt lines: "@prompt", after optional white space,
\* not run on into a longer word
PromptLineSet(T) ==
    {i \in 1..Len(RootLinesOf(T)) :
        \E p \in 1..Len(RootLinesOf(T)[i]) :
            /\ RootLinesOf(T)[i][p] = At("prompt")
            /\ \A q \in 1..(p - 1) : IsWS(RootLinesOf(T)[i][q])
            /\ p < Len(RootLinesOf(T)[i]) => RootLinesOf(T)[i][p + 1].k # "word"}

\* C7: a text without any @prompt line gives ("", ""), whatever else it holds.
C7_NoPromptNoRoot ==
    Extracted =>
        (PromptLineSet(spec_text) = {} =>
            root[1] = [prefix |-> <<>>, suffix |-> <<>>])

\* a text with an @execute line, root text and an "@prompts" line, and no
\* @prompt line
C7_Witness ==
    /\ Extracted
    /\ PromptLineSet(spec_text) = {}
    /\ \E i \in 1..Len(spec_text) : spec_text[i] = At("prompt")
    /\ \E i \in 1..Len(spec_text) : spec_text[i] = At("execute")
    /\ \E i \in 1..Len(spec_text) : spec_text[i] = W("Root")
    /\ root[1] = [prefix |-> <<>>, suffix |-> <<>>]

\* line i is an @execute line or one of the indented lines directly after one
InExecuteBlock(lines, i) ==
    \E j \in 1..i :
        /\ StartsWith(Strip(lines[j]), At("execute"))
        /\ \A m \in (j + 1)..i : lines[m] # <<>> /\ IsHWS(lines[m][1])

\* C8: with an @prompt line in the text, the prefix is the lines before the
\* first @prompt line, in order and unchanged, without the @execute lines
\* and the indented lines directly after them, trimmed.
C8_PrefixIsRootBeforeFirstPrompt ==
    Extracted =>
        (PromptLineSet(spec_text) # {} =>
            LET lines == RootLinesOf(spec_text)
                first == Min(PromptLineSet(spec_text))
                kept == SelectSeq([i \in 1..(first - 1) |-> i],
                                  LAMBDA i : ~InExecuteBlock(lines, i))
            IN  root[1].prefix = Strip(JoinNL([m \in 1..Len(kept) |-> lines[kept[m]]])))

\* an @execute line with an indented line after it, then root text and a
\* directive, all before the @prompt line: the prefix keeps the last two
C8_Witness ==
    /\ Extracted
    /\ spec_text = Unlines(<< <<At("execute"), SP, W("tot")>>,
                              <<SP, SP, W("k"), COLON, SP, W("3")>>,
                              <<W("Root"), SP, V("v")>>,
                              <<At("prompt"), SP, W("gen")>> >>)
    /\ root[1].prefix = <<W("Root"), SP, V("v")>>

\* the first line after line i that is not empty and does not start with
\* white space; 0 if there is none
FirstTopLevelAfter(lines, i) ==
    LET tops == {j \in (i + 1)..Len(lines) : lines[j] # <<>> /\ ~IsWS(lines[j][1])}
    IN  IF tops = {} THEN 0 ELSE Min(tops)

\* C9: with an @prompt line in the text, the suffix is the text from the
\* first line after the last @prompt line that is neither blank nor led by
\* white space, to the end, trimmed; it is empty if there is no such line.
C9_SuffixAfterLastBlock ==
    Extracted =>
        (PromptLineSet(spec_text) # {} =>
            LET lines == RootLinesOf(spec_text)
                t == FirstTopLevelAfter(lines, Max(PromptLineSet(spec_text)))
            IN  root[1].suffix =
                    IF t = 0 THEN <<>> ELSE Strip(JoinNL(SubSeq(lines, t, Len(lines)))))

\* two @prompt lines with root text after each: the suffix is the text
\* after the second alone
C9_Witness ==
    /\ Extracted
    /\ Cardinality(PromptLineSet(spec_text)) = 2
    /\ \E i \in 1..Len(RootLinesOf(spec_text)) :
          /\ Min(PromptLineSet(spec_text)) < i
          /\ i < Max(PromptLineSet(spec_text))
          /\ RootLinesOf(spec_text)[i] = <<W("Root"), SP, V("v")>>
    /\ root[1].suffix = <<W("Root"), SP, V("v")>>

---------------------------------------------------------------------------
(* _extract_root_text on texts of several prompt blocks *)

MaxSegLines == 4

\* a prompt block with a body line, a prompt line alone, root text, an
\* @execute block, an indented line, an empty line and another directive
SegLines ==
    { <<At("prompt"), SP, W("gen"), NL, SP, SP, W("Gen")>>,
      <<At("prompt"), SP, W("ev")>>,
      <<W("Root"), SP, V("v")>>,
      <<At("execute"), SP, W("tot"), NL, SP, SP, W("k"), COLON, SP, W("3")>>,
      <<SP, SP, W("more")>>,
      <<>>,
      <<At("refine"), SP, W("b")>> }

InitSeg ==
    /\ spec_text \in TextsOf(SegLines, MaxSegLines)
    /\ pc = "start"
    /\ meta = None
    /\ root = None
    /\ prompts = NoPrompts
    /\ prefix = <<>>
    /\ suffix = <<>>
    /\ cascaded = None

SpecSeg == InitSeg /\ [][NextRoot]_vars

\* line i is inside a named prompt block: an @prompt line, or one of the
\* blank or indented lines directly after one
InPromptBlock(lines, i) ==
    \E j \in 1..i :
        /\ j \in PromptLineSet(JoinNL(lines))
        /\ \A m \in (j + 1)..i : lines[m] = <<>> \/ IsWS(lines[m][1])

\* the lines of ls with indices in S that are not blank and not part of an
\* @execute block, trimmed, in order
RootContent(ls, S) ==
    LET kept == SelectSeq([i \in 1..Len(ls) |-> i],
                          LAMBDA i : /\ i \in S
                                     /\ Strip(ls[i]) # <<>>
                                     /\ ~InExecuteBlock(ls, i))
    IN  [m \in 1..Len(kept) |-> Strip(ls[kept[m]])]

\* all of ls
AllOf(ls) == 1..Len(ls)

ExecuteLinesIn(part) ==
    {i \in 1..Len(SplitNL(part)) : InExecuteBlock(SplitNL(part), i)}

\* C24: neither the prefix nor the suffix holds an @execute line or one of
\* the indented lines directly after it, wherever the @execute line stands
\* in the text.
C24_NoExecuteBlockInRootText ==
    Extracted =>
        /\ ExecuteLinesIn(root[1].prefix) = {}
        /\ ExecuteLinesIn(root[1].suffix) = {}

\* the part of C24 that concerns the prefix
C24_NoExecuteBlockInPrefix ==
    Extracted => ExecuteLinesIn(root[1].prefix) = {}

---------------------------------------------------------------------------
(* scan_spec and _extract_root_text applied to the same text *)

MaxBothLines == 3

\* a named prompt line, a prompt line without a name, an indented named
\* prompt line, "@prompts", "@prompt" with a colon, root text, a word alone
\* and an empty line
BothLines ==
    { <<At("prompt"), SP, W("gen")>>,
      <<At("prompt")>>,
      <<SP, SP, At("prompt"), SP, W("ev")>>,
      <<At("prompt"), W("s")>>,
      <<At("prompt"), COLON, SP, W("x")>>,
      <<W("Root"), SP, V("v")>>,
      <<W("name")>>,
      <<>> }

InitBoth ==
    /\ spec_text \in TextsOf(BothLines, MaxBothLines)
    /\ pc = "start"
    /\ meta = None
    /\ root = None
    /\ prompts = NoPrompts
    /\ prefix = <<>>
    /\ suffix = <<>>
    /\ cascaded = None

\* a call of _extract_root_text(spec_text) on the text that was scanned
ExtractScannedText ==
    /\ pc = "scanned"
    /\ root' = Some(_extract_root_text(spec_text))
    /\ pc' = "extracted"
    /\ UNCHANGED <<spec_text, meta, prompts, prefix, suffix, cascaded>>

NextBoth ==
    \/ ScanSpec
    \/ ExtractScannedText

SpecBoth == InitBoth /\ [][NextBoth]_vars

\* C30: scan_spec gives a non-empty prompt_names exactly when the text has an
\* @prompt line for _extract_root_text; with an empty prompt_names the root
\* text is ("", "").
C30_ScannerAndSegmenterAgree ==
    (Extracted /\ meta # None) =>
        /\ meta[1].prompt_names # <<>> <=> PromptLineSet(spec_text) # {}
        /\ meta[1].prompt_names = <<>> => root[1] = [prefix |-> <<>>, suffix |-> <<>>]

\* the same for the texts in which every @prompt line carries a name on the
\* line
C30_WhenPromptLinesAreNamed ==
    (Extracted /\ meta # None) =>
        ((\A i \in PromptLineSet(spec_text) :
              LET s == Strip(RootLinesOf(spec_text)[i])
              IN  Len(s) >= 3 /\ IsHWS(s[2]) /\ s[SkipHWS(s, 2)].k = "word")
            => /\ meta[1].prompt_names # <<>> <=> PromptLineSet(spec_text) # {}
               /\ meta[1].prompt_names = <<>> =>
                     root[1] = [prefix |-> <<>>, suffix |-> <<>>])

---------------------------------------------------------------------------
(* The cascade: _cascade_root_context applied to a map, a prefix and a suffix *)

MaxPrompts == 2

PromptKeys == {"default", "generate", "evaluate"}
PromptBodies == {<<>>, <<W("X")>>, <<W("Y")>>}
RootStrings == {<<>>, <<W("P")>>, <<W("S")>>}

\* the dicts of at most MaxPrompts entries: distinct keys, in any order
PromptMaps ==
    {ps \in UNION {[1..k -> [name : PromptKeys, text : PromptBodies]] : k \in 0..MaxPrompts} :
        \A i, j \in 1..Len(ps) : ps[i].name = ps[j].name => i = j}

InitCascade ==
    /\ spec_text = <<>>
    /\ pc = "start"
    /\ meta = None
    /\ root = None
    /\ prompts \in PromptMaps
    /\ prefix \in RootStrings
    /\ suffix \in RootStrings
    /\ cascaded = None

\* a call of _cascade_root_context(prompts, prefix, suffix)
CascadeRootContext ==
    /\ pc = "start"
    /\ cascaded' = Some(_cascade_root_context(prompts, prefix, suffix))
    /\ pc' = "cascaded"
    /\ UNCHANGED <<spec_text, meta, root, prompts, prefix, suffix>>

NextCascade == CascadeRootContext

SpecCascade == InitCascade /\ [][NextCascade]_vars

Cascaded == pc = "cascaded"
Keys(ps) == [i \in 1..Len(ps) |-> ps[i].name]

\* the two cases the claims give as no-ops
IsNoOpCall == (prefix = <<>> /\ suffix = <<>>) \/ Keys(prompts) = <<"default">>

\* C5: the map comes back unchanged when prefix and suffix are both empty
\* and when its only key is "default"; in every other call each entry is
\* cascaded (its text changes), also a single entry under another key and a
\* "default" entry standing with others.
C5_NoOpCases ==
    Cascaded =>
        /\ IsNoOpCall => cascaded[1] = prompts
        /\ ~IsNoOpCall =>
              /\ Len(cascaded[1]) = Len(prompts)
              /\ \A i \in 1..Len(prompts) : cascaded[1][i].text # prompts[i].text

\* {"default": X} with prefix P and suffix S comes back as it is
C5_Witness ==
    /\ Cascaded
    /\ prompts = <<[name |-> "default", text |-> <<W("X")>>]>>
    /\ prefix = <<W("P")>>
    /\ suffix = <<W("S")>>
    /\ cascaded[1] = prompts

\* the text of an entry after the cascade, written out
Wrapped(text, pre, suf) ==
    (IF pre = <<>> THEN <<>> ELSE pre \o <<NL, NL>>) \o text
    \o (IF suf = <<>> THEN <<>> ELSE <<NL, NL>> \o suf)

\* C6: when the call is not a no-op the result has the keys of the map in
\* the same order, and each text is prefix, text and suffix joined by a
\* blank line, an empty prefix or suffix left out and the text always kept.
C6_CascadedValues ==
    Cascaded =>
        (~IsNoOpCall =>
            /\ Keys(cascaded[1]) = Keys(prompts)
            /\ \A i \in 1..Len(prompts) :
                  cascaded[1][i].text = Wrapped(prompts[i].text, prefix, suffix))

\* {generate: X, evaluate: Y} with P and S gives P\n\nX\n\nS and P\n\nY\n\nS
C6_Witness ==
    /\ Cascaded
    /\ prompts = <<[name |-> "generate", text |-> <<W("X")>>],
                   [name |-> "evaluate", text |-> <<W("Y")>>]>>
    /\ prefix = <<W("P")>>
    /\ suffix = <<W("S")>>
    /\ cascaded[1] =
          <<[name |-> "generate", text |-> <<W("P"), NL, NL, W("X"), NL, NL, W("S")>>],
            [name |-> "evaluate", text |-> <<W("P"), NL, NL, W("Y"), NL, NL, W("S")>>]>>

============================================================================
